---- MODULE Spec2Model ----
(***************************************************************************)
(* A model of src/vm/database.rs: MemoryContractDatabase, a name-indexed   *)
(* collection of MemoryDataMap, each a HashMap<Value, Value> guarded by a  *)
(* key TypeSignature and a value TypeSignature.                            *)
(***************************************************************************)
EXTENDS Integers, Sequences, FiniteSets, TLC

\* Tuple payloads range over 1..MaxData.
MaxData == 2

\* The tuple shapes create_map is called with (vm::types::TupleTypeSignature),
\* each the sequence of its field names.
TupleTypeSignatures == {<<"owner">>, <<"amount">>}

\* vm::types::Value: the void variant, the boolean variant, tuple variants.
Void == <<"Void">>
Bool(b) == <<"Bool", b>>
Tuple(t, d) == <<"Tuple", t, d>>

TupleValues == {Tuple(t, d) : t \in TupleTypeSignatures, d \in 1..MaxData}

\* The values callers pass as keys and values.
Values == {Void} \cup TupleValues

\* The values the two-map specification passes: one payload per shape.
DbValues == {Void} \cup {Tuple(t, 1) : t \in TupleTypeSignatures}

\* The map names callers use.
Names == {"balances", "allowances"}
MapNames == {"balances"}

\* AtomTypeIdentifier::TupleType(sig)
TupleType(sig) == <<"TupleType", sig>>

\* TypeSignature::new_atom(atomic_type): an atom, no list dimensions.
new_atom(atomic_type) == [atomic_type |-> atomic_type, list_dimensions |-> <<"None">>]

\* TypeSignature::admits(value): a non-list tuple type admits the tuple
\* values of its shape, and nothing else.
admits(self, x) ==
    /\ self.list_dimensions = <<"None">>
    /\ self.atomic_type[1] = "TupleType"
    /\ x[1] = "Tuple"
    /\ x[2] = self.atomic_type[2]

\* format!("{:?}", type_signature)
DebugFormat(type_signature) == <<"Debug", type_signature>>

\* Error::TypeError(expected, found)
TypeError(expected, found) == <<"TypeError", expected, found>>

Ok(v) == <<"Ok", v>>
Err(e) == <<"Err", e>>
Unit == <<"Unit">>
Some(x) == <<"Some", x>>
None == <<"None">>

\* HashMap::new, HashMap::insert, HashMap::remove, HashMap::contains_key
HashMapNew == [x \in {} |-> x]
HashMapInsert(m, k, v) == [x \in (DOMAIN m) \cup {k} |-> IF x = k THEN v ELSE m[x]]
HashMapRemove(m, k) == [x \in (DOMAIN m) \ {k} |-> m[x]]
HashMapContainsKey(m, k) == k \in DOMAIN m

\* MemoryDataMap::new
MemoryDataMapNew(key_type, value_type) ==
    [map |-> HashMapNew,
     key_type |-> new_atom(TupleType(key_type)),
     value_type |-> new_atom(TupleType(value_type))]

\* MemoryContractDatabase::new
MemoryContractDatabaseNew == HashMapNew

\* Every data-map method yields the map as the call leaves it and what it returns.

\* fetch_entry with a missing entry reported as an error.
fetch_entry_missing_is_error(self, key) ==
    IF ~admits(self.key_type, key) \/ ~HashMapContainsKey(self.map, key)
    THEN [self |-> self, ret |-> Err(TypeError(DebugFormat(self.key_type), key))]
    ELSE [self |-> self, ret |-> Ok(self.map[key])]

\* fetch_entry that takes the entry out of the map (HashMap::remove for get).
fetch_entry_removes(self, key) ==
    IF ~admits(self.key_type, key)
    THEN [self |-> self, ret |-> Err(TypeError(DebugFormat(self.key_type), key))]
    ELSE IF HashMapContainsKey(self.map, key)
         THEN [self |-> [self EXCEPT !.map = HashMapRemove(self.map, key)],
               ret |-> Ok(self.map[key])]
         ELSE [self |-> self, ret |-> Ok(Void)]

fetch_entry(self, key) ==
    IF ~admits(self.key_type, key)
    THEN [self |-> self, ret |-> Err(TypeError(DebugFormat(self.key_type), key))]
    ELSE IF HashMapContainsKey(self.map, key)
         THEN [self |-> self, ret |-> Ok(self.map[key])]
         ELSE [self |-> self, ret |-> Ok(Void)]

\* set_entry that keeps the entry already stored (entry().or_insert(value)).
set_entry_keep_existing(self, key, value) ==
    IF ~admits(self.key_type, key)
    THEN [self |-> self, ret |-> Err(TypeError(DebugFormat(self.key_type), key))]
    ELSE IF ~admits(self.value_type, value)
         THEN [self |-> self, ret |-> Err(TypeError(DebugFormat(self.value_type), value))]
         ELSE IF HashMapContainsKey(self.map, key)
              THEN [self |-> self, ret |-> Ok(Unit)]
              ELSE [self |-> [self EXCEPT !.map = HashMapInsert(self.map, key, value)],
                    ret |-> Ok(Unit)]

\* set_entry that validates the value before the key.
set_entry_value_first(self, key, value) ==
    IF ~admits(self.value_type, value)
    THEN [self |-> self, ret |-> Err(TypeError(DebugFormat(self.value_type), value))]
    ELSE IF ~admits(self.key_type, key)
         THEN [self |-> self, ret |-> Err(TypeError(DebugFormat(self.key_type), key))]
         ELSE [self |-> [self EXCEPT !.map = HashMapInsert(self.map, key, value)],
               ret |-> Ok(Unit)]

\* set_entry without the value check.
set_entry_skip_value_check(self, key, value) ==
    IF ~admits(self.key_type, key)
    THEN [self |-> self, ret |-> Err(TypeError(DebugFormat(self.key_type), key))]
    ELSE [self |-> [self EXCEPT !.map = HashMapInsert(self.map, key, value)],
          ret |-> Ok(Unit)]

\* set_entry that stores the entry before it validates the value.
set_entry_validate_after_insert(self, key, value) ==
    IF ~admits(self.key_type, key)
    THEN [self |-> self, ret |-> Err(TypeError(DebugFormat(self.key_type), key))]
    ELSE [self |-> [self EXCEPT !.map = HashMapInsert(self.map, key, value)],
          ret |-> IF ~admits(self.value_type, value)
                  THEN Err(TypeError(DebugFormat(self.value_type), value))
                  ELSE Ok(Unit)]

set_entry(self, key, value) ==
    IF ~admits(self.key_type, key)
    THEN [self |-> self, ret |-> Err(TypeError(DebugFormat(self.key_type), key))]
    ELSE IF ~admits(self.value_type, value)
         THEN [self |-> self, ret |-> Err(TypeError(DebugFormat(self.value_type), value))]
         ELSE [self |-> [self EXCEPT !.map = HashMapInsert(self.map, key, value)],
               ret |-> Ok(Unit)]

\* insert_entry without the value check.
insert_entry_skip_value_check(self, key, value) ==
    IF ~admits(self.key_type, key)
    THEN [self |-> self, ret |-> Err(TypeError(DebugFormat(self.key_type), key))]
    ELSE IF HashMapContainsKey(self.map, key)
         THEN [self |-> self, ret |-> Ok(Bool(FALSE))]
         ELSE [self |-> [self EXCEPT !.map = HashMapInsert(self.map, key, value)],
               ret |-> Ok(Bool(TRUE))]

\* insert_entry that answers from HashMap::insert's old value: the new value
\* is stored whether or not the key was there.
insert_entry_overwrite(self, key, value) ==
    IF ~admits(self.key_type, key)
    THEN [self |-> self, ret |-> Err(TypeError(DebugFormat(self.key_type), key))]
    ELSE IF ~admits(self.value_type, value)
         THEN [self |-> self, ret |-> Err(TypeError(DebugFormat(self.value_type), value))]
         ELSE [self |-> [self EXCEPT !.map = HashMapInsert(self.map, key, value)],
               ret |-> Ok(Bool(~HashMapContainsKey(self.map, key)))]

\* insert_entry that tests contains_key before it validates the value.
insert_entry_contains_first(self, key, value) ==
    IF ~admits(self.key_type, key)
    THEN [self |-> self, ret |-> Err(TypeError(DebugFormat(self.key_type), key))]
    ELSE IF HashMapContainsKey(self.map, key)
         THEN [self |-> self, ret |-> Ok(Bool(FALSE))]
         ELSE IF ~admits(self.value_type, value)
              THEN [self |-> self,
                    ret |-> Err(TypeError(DebugFormat(self.value_type), value))]
              ELSE [self |-> [self EXCEPT !.map = HashMapInsert(self.map, key, value)],
                    ret |-> Ok(Bool(TRUE))]

\* insert_entry without the contains_key test.
insert_entry_no_contains_check(self, key, value) ==
    IF ~admits(self.key_type, key)
    THEN [self |-> self, ret |-> Err(TypeError(DebugFormat(self.key_type), key))]
    ELSE IF ~admits(self.value_type, value)
         THEN [self |-> self, ret |-> Err(TypeError(DebugFormat(self.value_type), value))]
         ELSE [self |-> [self EXCEPT !.map = HashMapInsert(self.map, key, value)],
               ret |-> Ok(Bool(TRUE))]

\* insert_entry that rebuilds the map with the two schemas in the wrong order.
insert_entry_swapped_types(self, key, value) ==
    IF ~admits(self.key_type, key)
    THEN [self |-> self, ret |-> Err(TypeError(DebugFormat(self.key_type), key))]
    ELSE IF ~admits(self.value_type, value)
         THEN [self |-> self, ret |-> Err(TypeError(DebugFormat(self.value_type), value))]
         ELSE IF HashMapContainsKey(self.map, key)
              THEN [self |-> self, ret |-> Ok(Bool(FALSE))]
              ELSE [self |-> [map |-> HashMapInsert(self.map, key, value),
                              key_type |-> self.value_type,
                              value_type |-> self.key_type],
                    ret |-> Ok(Bool(TRUE))]

insert_entry(self, key, value) ==
    IF ~admits(self.key_type, key)
    THEN [self |-> self, ret |-> Err(TypeError(DebugFormat(self.key_type), key))]
    ELSE IF ~admits(self.value_type, value)
         THEN [self |-> self, ret |-> Err(TypeError(DebugFormat(self.value_type), value))]
         ELSE IF HashMapContainsKey(self.map, key)
              THEN [self |-> self, ret |-> Ok(Bool(FALSE))]
              ELSE [self |-> [self EXCEPT !.map = HashMapInsert(self.map, key, value)],
                    ret |-> Ok(Bool(TRUE))]

\* delete_entry that answers true whenever the key is admitted.
delete_entry_always_true(self, key) ==
    IF ~admits(self.key_type, key)
    THEN [self |-> self, ret |-> Err(TypeError(DebugFormat(self.key_type), key))]
    ELSE [self |-> [self EXCEPT !.map = HashMapRemove(self.map, key)],
          ret |-> Ok(Bool(TRUE))]

\* delete_entry that empties the map when the key is stored (HashMap::clear).
delete_entry_clears_map(self, key) ==
    IF ~admits(self.key_type, key)
    THEN [self |-> self, ret |-> Err(TypeError(DebugFormat(self.key_type), key))]
    ELSE IF HashMapContainsKey(self.map, key)
         THEN [self |-> [self EXCEPT !.map = HashMapNew], ret |-> Ok(Bool(TRUE))]
         ELSE [self |-> self, ret |-> Ok(Bool(FALSE))]

delete_entry(self, key) ==
    IF ~admits(self.key_type, key)
    THEN [self |-> self, ret |-> Err(TypeError(DebugFormat(self.key_type), key))]
    ELSE IF HashMapContainsKey(self.map, key)
         THEN [self |-> [self EXCEPT !.map = HashMapRemove(self.map, key)],
               ret |-> Ok(Bool(TRUE))]
         ELSE [self |-> self, ret |-> Ok(Bool(FALSE))]

\* The database methods, on the name table self.maps.

\* get_mut_data_map that hands out whichever map the table yields first.
get_mut_data_map_any_map(db, map_name) ==
    IF HashMapContainsKey(db, map_name)
    THEN Some(CHOOSE m \in DOMAIN db : TRUE)
    ELSE None

get_mut_data_map(db, map_name) ==
    IF HashMapContainsKey(db, map_name) THEN Some(map_name) ELSE None

get_data_map(db, map_name) ==
    IF HashMapContainsKey(db, map_name) THEN Some(map_name) ELSE None

\* create_map that keeps a map already under the name (entry().or_insert(new_map)).
create_map_keep_existing(db, map_name, key_type, value_type) ==
    IF HashMapContainsKey(db, map_name)
    THEN db
    ELSE HashMapInsert(db, map_name, MemoryDataMapNew(key_type, value_type))

\* create_map that starts from an empty name table.
create_map_clears_table(db, map_name, key_type, value_type) ==
    HashMapInsert(HashMapNew, map_name, MemoryDataMapNew(key_type, value_type))

\* create_map that installs the new map only under the name "balances".
create_map_one_name(db, map_name, key_type, value_type) ==
    IF map_name = "balances"
    THEN HashMapInsert(db, map_name, MemoryDataMapNew(key_type, value_type))
    ELSE db

create_map(db, map_name, key_type, value_type) ==
    HashMapInsert(db, map_name, MemoryDataMapNew(key_type, value_type))

VARIABLES
    maps,          \* MemoryContractDatabase.maps: name -> MemoryDataMap
    last,          \* the call just made: method, arguments, return value
    created,       \* history: the names create_map has been called with
    displaced,     \* history: what self.maps.insert returned and create_map
                   \* dropped, in the create_map just made: Some(the map that
                   \* was under the name) or None; None after any other call
    live_inserts   \* history, kept under SpecHist: <<name, key>> whose
                   \* insert_entry returned true on the map now under name,
                   \* with no true delete_entry since

vars == <<maps, last, created, displaced, live_inserts>>

NoArg == <<"NoArg">>

Call(op, map_name, key, value, ret) ==
    [op |-> op, map_name |-> map_name, key |-> key, value |-> value, ret |-> ret]

Init ==
    /\ maps = MemoryContractDatabaseNew
    /\ last = Call("new", "", NoArg, NoArg, Unit)
    /\ created = {}
    /\ displaced = None
    /\ live_inserts = {}

CreateMap(map_name, key_type, value_type) ==
    /\ maps' = create_map(maps, map_name, key_type, value_type)
    /\ last' = Call("create_map", map_name, key_type, value_type, Unit)
    /\ created' = created \cup {map_name}
    /\ displaced' = IF HashMapContainsKey(maps, map_name)
                    THEN Some(maps[map_name])
                    ELSE None

GetDataMap(map_name) ==
    /\ last' = Call("get_data_map", map_name, NoArg, NoArg, get_data_map(maps, map_name))
    /\ displaced' = None
    /\ UNCHANGED <<maps, created>>

GetMutDataMap(map_name) ==
    /\ last' = Call("get_mut_data_map", map_name, NoArg, NoArg,
                    get_mut_data_map(maps, map_name))
    /\ displaced' = None
    /\ UNCHANGED <<maps, created>>

\* The map methods are called through the handle a lookup of map_name gave:
\* Some(data_map) refers to the map the lookup found in the name table.
FetchEntry(map_name, key) ==
    /\ get_data_map(maps, map_name) # None
    /\ LET data_map == get_data_map(maps, map_name)[2]
           r == fetch_entry(maps[data_map], key) IN
        /\ maps' = [maps EXCEPT ![data_map] = r.self]
        /\ last' = Call("fetch_entry", map_name, key, NoArg, r.ret)
    /\ displaced' = None
    /\ UNCHANGED created

SetEntry(map_name, key, value) ==
    /\ get_mut_data_map(maps, map_name) # None
    /\ LET data_map == get_mut_data_map(maps, map_name)[2]
           r == set_entry(maps[data_map], key, value) IN
        /\ maps' = [maps EXCEPT ![data_map] = r.self]
        /\ last' = Call("set_entry", map_name, key, value, r.ret)
    /\ displaced' = None
    /\ UNCHANGED created

InsertEntry(map_name, key, value) ==
    /\ get_mut_data_map(maps, map_name) # None
    /\ LET data_map == get_mut_data_map(maps, map_name)[2]
           r == insert_entry(maps[data_map], key, value) IN
        /\ maps' = [maps EXCEPT ![data_map] = r.self]
        /\ last' = Call("insert_entry", map_name, key, value, r.ret)
    /\ displaced' = None
    /\ UNCHANGED created

DeleteEntry(map_name, key) ==
    /\ get_mut_data_map(maps, map_name) # None
    /\ LET data_map == get_mut_data_map(maps, map_name)[2]
           r == delete_entry(maps[data_map], key) IN
        /\ maps' = [maps EXCEPT ![data_map] = r.self]
        /\ last' = Call("delete_entry", map_name, key, NoArg, r.ret)
    /\ displaced' = None
    /\ UNCHANGED created

\* The history of true insert_entry results, read off the call just made.
LiveAfter(live, call) ==
    IF call.op = "create_map"
    THEN {p \in live : p[1] # call.map_name}
    ELSE IF call.op = "insert_entry" /\ call.ret = Ok(Bool(TRUE))
    THEN live \cup {<<call.map_name, call.key>>}
    ELSE IF call.op = "delete_entry" /\ call.ret = Ok(Bool(TRUE))
    THEN live \ {<<call.map_name, call.key>>}
    ELSE live

TrackInserts == live_inserts' = LiveAfter(live_inserts, last')

\* One map, every value.
Next ==
    \/ \E n \in MapNames, kt \in TupleTypeSignatures, vt \in TupleTypeSignatures :
          CreateMap(n, kt, vt) /\ UNCHANGED live_inserts
    \/ \E n \in MapNames : GetDataMap(n) /\ UNCHANGED live_inserts
    \/ \E n \in MapNames : GetMutDataMap(n) /\ UNCHANGED live_inserts
    \/ \E n \in MapNames, k \in Values : FetchEntry(n, k) /\ UNCHANGED live_inserts
    \/ \E n \in MapNames, k \in Values, v \in Values :
          SetEntry(n, k, v) /\ UNCHANGED live_inserts
    \/ \E n \in MapNames, k \in Values, v \in Values :
          InsertEntry(n, k, v) /\ UNCHANGED live_inserts
    \/ \E n \in MapNames, k \in Values : DeleteEntry(n, k) /\ UNCHANGED live_inserts

Spec == Init /\ [][Next]_vars

\* Two maps, one payload per shape.
NextDb ==
    \/ \E n \in Names, kt \in TupleTypeSignatures, vt \in TupleTypeSignatures :
          CreateMap(n, kt, vt) /\ UNCHANGED live_inserts
    \/ \E n \in Names : GetDataMap(n) /\ UNCHANGED live_inserts
    \/ \E n \in Names : GetMutDataMap(n) /\ UNCHANGED live_inserts
    \/ \E n \in Names, k \in DbValues : FetchEntry(n, k) /\ UNCHANGED live_inserts
    \/ \E n \in Names, k \in DbValues, v \in DbValues :
          SetEntry(n, k, v) /\ UNCHANGED live_inserts
    \/ \E n \in Names, k \in DbValues, v \in DbValues :
          InsertEntry(n, k, v) /\ UNCHANGED live_inserts
    \/ \E n \in Names, k \in DbValues : DeleteEntry(n, k) /\ UNCHANGED live_inserts

SpecDb == Init /\ [][NextDb]_vars

\* One map, every value, with the history of true insert_entry results kept.
NextHist ==
    \/ \E n \in MapNames, kt \in TupleTypeSignatures, vt \in TupleTypeSignatures :
          CreateMap(n, kt, vt) /\ TrackInserts
    \/ \E n \in MapNames : GetDataMap(n) /\ TrackInserts
    \/ \E n \in MapNames : GetMutDataMap(n) /\ TrackInserts
    \/ \E n \in MapNames, k \in Values : FetchEntry(n, k) /\ TrackInserts
    \/ \E n \in MapNames, k \in Values, v \in Values :
          SetEntry(n, k, v) /\ TrackInserts
    \/ \E n \in MapNames, k \in Values, v \in Values :
          InsertEntry(n, k, v) /\ TrackInserts
    \/ \E n \in MapNames, k \in Values : DeleteEntry(n, k) /\ TrackInserts

SpecHist == Init /\ [][NextHist]_vars

MapCalls == {"fetch_entry", "set_entry", "insert_entry", "delete_entry"}

----------------------------------------------------------------------------
\* C1: in every reachable state, whatever calls succeeded or failed before,
\* every (key, value) stored in every map is admitted by that map's schemas:
\* the key by key_type, the value by value_type.
C1_EntriesAdmitted ==
    \A n \in DOMAIN maps : \A k \in DOMAIN maps[n].map :
        /\ admits(maps[n].key_type, k)
        /\ admits(maps[n].value_type, maps[n].map[k])

\* A set_entry or insert_entry has just failed on a map that holds two entries.
C1_Witness ==
    /\ last.op \in {"set_entry", "insert_entry"}
    /\ last.ret[1] = "Err"
    /\ Cardinality(DOMAIN maps[last.map_name].map) = 2

\* C2: a set_entry whose key and value are both admitted returns Ok(()), and a
\* fetch_entry of the same key made right after it returns exactly the value
\* set, whether the key was in the map before the set_entry or not.
C2_SetThenFetch ==
    [][/\ (/\ last'.op = "set_entry"
           /\ admits(maps[last'.map_name].key_type, last'.key)
           /\ admits(maps[last'.map_name].value_type, last'.value))
          => /\ last'.ret = Ok(Unit)
             /\ fetch_entry(maps'[last'.map_name], last'.key).ret = Ok(last'.value)
       /\ (/\ last.op = "set_entry"
           /\ last.ret = Ok(Unit)
           /\ last'.op = "fetch_entry"
           /\ last'.map_name = last.map_name
           /\ last'.key = last.key)
          => last'.ret = Ok(last.value)
      ]_vars

\* A fetch_entry has returned a stored value that the map still holds, while
\* another value is admitted too (an overwrite changes what is fetched).
C2_Witness ==
    /\ last.op = "fetch_entry"
    /\ last.ret[1] = "Ok"
    /\ last.ret[2] # Void
    /\ maps[last.map_name].map[last.key] = last.ret[2]
    /\ \E v \in Values : v # last.ret[2] /\ admits(maps[last.map_name].value_type, v)

\* C3: a map call whose key is not admitted by key_type, and a set_entry or
\* insert_entry whose value is not admitted by value_type, returns a TypeError
\* and leaves the entries of the map (and the whole database) as they were.
C3_RejectedCallLeavesMap ==
    [][(/\ last'.op \in MapCalls
        /\ \/ ~admits(maps[last'.map_name].key_type, last'.key)
           \/ /\ last'.op \in {"set_entry", "insert_entry"}
              /\ ~admits(maps[last'.map_name].value_type, last'.value))
       => /\ last'.ret[1] = "Err"
          /\ last'.ret[2][1] = "TypeError"
          /\ maps'[last'.map_name].map = maps[last'.map_name].map
          /\ maps' = maps
      ]_vars

\* A set_entry with an admitted key and a value that is not admitted has just
\* failed on a map that holds an entry for that key.
C3_Witness ==
    /\ last.op = "set_entry"
    /\ last.ret[1] = "Err"
    /\ admits(maps[last.map_name].key_type, last.key)
    /\ ~admits(maps[last.map_name].value_type, last.value)
    /\ last.key \in DOMAIN maps[last.map_name].map

\* C4: an insert_entry with admitted key and value returns false and changes
\* nothing when the map holds an entry for the key; when it holds none the
\* call returns true, stores the value under the key and leaves the other
\* entries alone.
C4_InsertIfAbsent ==
    [][(/\ last'.op = "insert_entry"
        /\ admits(maps[last'.map_name].key_type, last'.key)
        /\ admits(maps[last'.map_name].value_type, last'.value))
       => LET old == maps[last'.map_name].map
              new == maps'[last'.map_name].map
          IN IF last'.key \in DOMAIN old
             THEN /\ last'.ret = Ok(Bool(FALSE))
                  /\ new = old
                  /\ maps' = maps
             ELSE /\ last'.ret = Ok(Bool(TRUE))
                  /\ DOMAIN new = DOMAIN old \cup {last'.key}
                  /\ new[last'.key] = last'.value
                  /\ \A k \in DOMAIN old : new[k] = old[k]
      ]_vars

\* An insert_entry has returned false for a key whose stored value differs
\* from the value the call offered.
C4_Witness ==
    /\ last.op = "insert_entry"
    /\ last.ret = Ok(Bool(FALSE))
    /\ maps[last.map_name].map[last.key] # last.value

\* C5: on one map, insert_entry returns true for a key at most once until a
\* delete_entry of that key returns true: an insert_entry that returns true
\* finds no earlier true insert_entry of the key on this map that is not yet
\* followed by a true delete_entry of it.
C5_InsertTrueOncePerKey ==
    [][(/\ last'.op = "insert_entry"
        /\ last'.ret = Ok(Bool(TRUE)))
       => <<last'.map_name, last'.key>> \notin live_inserts
      ]_vars

\* An insert_entry has returned false for a key whose earlier insert_entry
\* returned true, and no delete_entry of the key has returned true since.
C5_Witness ==
    /\ last.op = "insert_entry"
    /\ last.ret = Ok(Bool(FALSE))
    /\ <<last.map_name, last.key>> \in live_inserts

\* C6: a delete_entry with an admitted key returns true exactly when the map
\* held an entry for the key; after true the entry is gone, fetch_entry of the
\* key returns void and the other entries are as before; false changes nothing.
C6_DeleteEntry ==
    [][(/\ last'.op = "delete_entry"
        /\ admits(maps[last'.map_name].key_type, last'.key))
       => LET old == maps[last'.map_name].map
              new == maps'[last'.map_name].map
          IN /\ last'.ret \in {Ok(Bool(TRUE)), Ok(Bool(FALSE))}
             /\ (last'.ret = Ok(Bool(TRUE))) <=> (last'.key \in DOMAIN old)
             /\ (last'.ret = Ok(Bool(TRUE))) =>
                   /\ DOMAIN new = DOMAIN old \ {last'.key}
                   /\ \A k \in DOMAIN new : new[k] = old[k]
                   /\ fetch_entry(maps'[last'.map_name], last'.key).ret = Ok(Void)
             /\ (last'.ret = Ok(Bool(FALSE))) => maps' = maps
      ]_vars

\* A delete_entry has returned true and left another entry in the map.
C6_Witness ==
    /\ last.op = "delete_entry"
    /\ last.ret = Ok(Bool(TRUE))
    /\ last.key \notin DOMAIN maps[last.map_name].map
    /\ DOMAIN maps[last.map_name].map # {}

\* C7: create_map under a name that already has a map puts an empty map there:
\* it holds no entry, fetch_entry of every key its key schema admits returns
\* void, its schemas admit exactly the tuples of the shapes just given, and
\* every map under another name keeps its entries and schemas.
C7_CreateMapReplaces ==
    [][(/\ last'.op = "create_map"
        /\ last'.map_name \in DOMAIN maps)
       => LET new == maps'[last'.map_name] IN
          /\ DOMAIN new.map = {}
          /\ \A x \in Values :
                /\ admits(new.key_type, x) <=> (x[1] = "Tuple" /\ x[2] = last'.key)
                /\ admits(new.value_type, x) <=> (x[1] = "Tuple" /\ x[2] = last'.value)
                /\ admits(new.key_type, x) => fetch_entry(new, x).ret = Ok(Void)
          /\ DOMAIN maps' = DOMAIN maps
          /\ \A m \in DOMAIN maps \ {last'.map_name} : maps'[m] = maps[m]
      ]_vars

\* create_map has just been called for a name that already had a map: the
\* map it displaced held an entry and had another key schema, the map now
\* under the name is empty, and the map under the other name holds an entry.
C7_Witness ==
    /\ last.op = "create_map"
    /\ displaced # None
    /\ DOMAIN displaced[2].map # {}
    /\ displaced[2].key_type # maps[last.map_name].key_type
    /\ DOMAIN maps = Names
    /\ maps[last.map_name].map = HashMapNew
    /\ \E m \in Names \ {last.map_name} : DOMAIN maps[m].map # {}

\* C8: a fetch_entry with an admitted key never fails: it returns the value
\* stored for the key when the map holds one and void when it holds none.
C8_FetchEntry ==
    [][(/\ last'.op = "fetch_entry"
        /\ admits(maps[last'.map_name].key_type, last'.key))
       => LET old == maps[last'.map_name].map IN
          /\ last'.ret[1] = "Ok"
          /\ last'.key \in DOMAIN old => last'.ret = Ok(old[last'.key])
          /\ last'.key \notin DOMAIN old => last'.ret = Ok(Void)
      ]_vars

\* A fetch_entry of an admitted key has returned void on a map that holds an
\* entry for another key.
C8_Witness ==
    /\ last.op = "fetch_entry"
    /\ last.ret = Ok(Void)
    /\ admits(maps[last.map_name].key_type, last.key)
    /\ DOMAIN maps[last.map_name].map # {}

\* C9: a new database has no maps, and in every state get_data_map(name) and
\* get_mut_data_map(name) each return a handle exactly for the names create_map
\* has been called with, and None (an ordinary result) for every other name.
C9_LookupIffCreated ==
    /\ last.op = "new" => DOMAIN maps = {}
    /\ \A n \in Names :
          /\ (get_data_map(maps, n) # None) <=> (n \in created)
          /\ (get_mut_data_map(maps, n) # None) <=> (n \in created)
          /\ n \notin created =>
                /\ get_data_map(maps, n) = None
                /\ get_mut_data_map(maps, n) = None
    /\ last.op \in {"get_data_map", "get_mut_data_map"} =>
          /\ last.ret \in {None, Some(last.map_name)}
          /\ (last.ret # None) <=> (last.map_name \in created)

\* A lookup has just returned None for a name create_map was never called
\* with, while the other name has a map.
C9_Witness ==
    /\ last.op \in {"get_data_map", "get_mut_data_map"}
    /\ last.ret = None
    /\ last.map_name \notin created
    /\ created # {}

\* C10: no fetch_entry, set_entry, insert_entry or delete_entry, successful or
\* failing, changes the key schema or the value schema of a map; the schemas
\* under a name change only in a create_map of that name.
C10_SchemasImmutable ==
    [][/\ last'.op \in MapCalls =>
            /\ maps'[last'.map_name].key_type = maps[last'.map_name].key_type
            /\ maps'[last'.map_name].value_type = maps[last'.map_name].value_type
       /\ \A n \in DOMAIN maps :
            (\/ n \notin DOMAIN maps'
             \/ maps'[n].key_type # maps[n].key_type
             \/ maps'[n].value_type # maps[n].value_type)
            => (last'.op = "create_map" /\ last'.map_name = n)
      ]_vars

\* An insert_entry has just stored an entry in a map whose two schemas differ,
\* while the other name's map has other schemas.
C10_Witness ==
    /\ last.op = "insert_entry"
    /\ last.ret = Ok(Bool(TRUE))
    /\ maps[last.map_name].key_type # maps[last.map_name].value_type
    /\ \E m \in DOMAIN maps : maps[m].key_type # maps[last.map_name].key_type

\* C11: no call removes a name from the database: the set of registered names
\* never shrinks, and a name whose lookup returns a handle before a call has
\* lookups that return a handle after it.
C11_NamesNeverShrink ==
    [][/\ DOMAIN maps \subseteq DOMAIN maps'
       /\ \A n \in Names :
            get_data_map(maps, n) # None =>
               /\ get_data_map(maps', n) # None
               /\ get_mut_data_map(maps', n) # None
      ]_vars

\* create_map has just been called with both names registered and an entry
\* stored: both names are registered and both lookups return handles.
C11_Witness ==
    /\ last.op = "create_map"
    /\ DOMAIN maps = Names
    /\ \A n \in Names : get_data_map(maps, n) # None
    /\ \E n \in Names : DOMAIN maps[n].map # {}

\* C12: a call whose key is not admitted returns a TypeError that carries the
\* key schema and the key, whatever value came with it; a set_entry or
\* insert_entry whose key is admitted and whose value is not returns a
\* TypeError that carries the value schema and the value.
C12_TypeErrorNamesSide ==
    [][last'.op \in MapCalls =>
         LET self == maps[last'.map_name] IN
         /\ ~admits(self.key_type, last'.key) =>
               /\ last'.ret[1] = "Err"
               /\ last'.ret[2] = TypeError(DebugFormat(self.key_type), last'.key)
         /\ (/\ last'.op \in {"set_entry", "insert_entry"}
             /\ admits(self.key_type, last'.key)
             /\ ~admits(self.value_type, last'.value)) =>
               /\ last'.ret[1] = "Err"
               /\ last'.ret[2] = TypeError(DebugFormat(self.value_type), last'.value)
      ]_vars

\* A set_entry whose key and value are both not admitted, on a map whose two
\* schemas differ, has returned the TypeError of the key.
C12_Witness ==
    /\ last.op = "set_entry"
    /\ ~admits(maps[last.map_name].key_type, last.key)
    /\ ~admits(maps[last.map_name].value_type, last.value)
    /\ last.key # last.value
    /\ maps[last.map_name].key_type # maps[last.map_name].value_type
    /\ last.ret = Err(TypeError(DebugFormat(maps[last.map_name].key_type), last.key))

\* C13: fetch_entry, with an admitted key or not, and the two lookups leave
\* the whole database as it was: the names, and every map's entries and
\* schemas.
C13_ReadsDoNotMutate ==
    [][last'.op \in {"fetch_entry", "get_data_map", "get_mut_data_map"} =>
         /\ DOMAIN maps' = DOMAIN maps
         /\ \A n \in DOMAIN maps :
               /\ maps'[n].map = maps[n].map
               /\ maps'[n].key_type = maps[n].key_type
               /\ maps'[n].value_type = maps[n].value_type
      ]_vars

\* A fetch_entry has returned a stored value, which the map still holds, and
\* the map under the other name holds an entry too.
C13_Witness ==
    /\ last.op = "fetch_entry"
    /\ last.ret[1] = "Ok"
    /\ last.ret[2] # Void
    /\ last.key \in DOMAIN maps[last.map_name].map
    /\ \E m \in DOMAIN maps \ {last.map_name} : DOMAIN maps[m].map # {}

\* C15: an insert_entry with an admitted key that the map already holds and a
\* value that is not admitted returns the TypeError of the value, not false,
\* and leaves the stored entry as it was.
C15_InsertValidatesBeforeLookup ==
    [][(/\ last'.op = "insert_entry"
        /\ admits(maps[last'.map_name].key_type, last'.key)
        /\ last'.key \in DOMAIN maps[last'.map_name].map
        /\ ~admits(maps[last'.map_name].value_type, last'.value))
       => /\ last'.ret[1] = "Err"
          /\ last'.ret[2][1] = "TypeError"
          /\ last'.ret # Ok(Bool(FALSE))
          /\ maps'[last'.map_name].map = maps[last'.map_name].map
      ]_vars

\* An insert_entry with a value that is not admitted has just failed for a
\* key the map holds.
C15_Witness ==
    /\ last.op = "insert_entry"
    /\ last.ret[1] = "Err"
    /\ last.key \in DOMAIN maps[last.map_name].map
    /\ ~admits(maps[last.map_name].value_type, last.value)

\* C16: a set_entry, insert_entry or delete_entry changes at most the entry of
\* the key it was given: every other key is in the map after the call exactly
\* when it was before, with the same value, and the number of entries changes
\* by at most one.
C16_OnlyGivenKeyChanges ==
    [][last'.op \in {"set_entry", "insert_entry", "delete_entry"} =>
         LET old == maps[last'.map_name].map
             new == maps'[last'.map_name].map
         IN /\ \A k \in (DOMAIN old \cup DOMAIN new) \ {last'.key} :
                  /\ k \in DOMAIN old
                  /\ k \in DOMAIN new
                  /\ new[k] = old[k]
            /\ Cardinality(DOMAIN new) - Cardinality(DOMAIN old) \in {-1, 0, 1}
      ]_vars

\* A set_entry has just stored an entry in a map that holds another entry.
C16_Witness ==
    /\ last.op = "set_entry"
    /\ last.ret = Ok(Unit)
    /\ DOMAIN maps[last.map_name].map \ {last.key} # {}

\* C17: a set_entry, insert_entry or delete_entry made through the handle of
\* one name leaves the set of registered names, and the entries and schemas of
\* every map under another name, as they were.
C17_MapsIsolated ==
    [][last'.op \in {"set_entry", "insert_entry", "delete_entry"} =>
         /\ DOMAIN maps' = DOMAIN maps
         /\ \A m \in DOMAIN maps \ {last'.map_name} :
               /\ maps'[m].map = maps[m].map
               /\ maps'[m].key_type = maps[m].key_type
               /\ maps'[m].value_type = maps[m].value_type
      ]_vars

\* A set_entry has just stored an entry under one name while the map under
\* the other name, which admits the same key and value, holds no entry.
C17_Witness ==
    /\ last.op = "set_entry"
    /\ last.ret = Ok(Unit)
    /\ last.key \in DOMAIN maps[last.map_name].map
    /\ \E m \in DOMAIN maps \ {last.map_name} :
          /\ admits(maps[m].key_type, last.key)
          /\ admits(maps[m].value_type, last.value)
          /\ DOMAIN maps[m].map = {}

\* C18: when the value schema does not admit void, a fetch_entry of an
\* admitted key returns void exactly when the map holds no entry for the key,
\* and an insert_entry of that key with an admitted value made right after the
\* fetch_entry returns true exactly when the fetch_entry returned void.
C18_VoidMeansAbsent ==
    [][/\ (/\ last'.op = "fetch_entry"
           /\ admits(maps[last'.map_name].key_type, last'.key)
           /\ ~admits(maps[last'.map_name].value_type, Void))
          => /\ (last'.ret = Ok(Void)) <=>
                   (last'.key \notin DOMAIN maps[last'.map_name].map)
             /\ \A v \in Values :
                   admits(maps[last'.map_name].value_type, v) =>
                      ((insert_entry(maps'[last'.map_name], last'.key, v).ret
                           = Ok(Bool(TRUE)))
                       <=> (last'.ret = Ok(Void)))
       /\ (/\ last.op = "fetch_entry"
           /\ last'.op = "insert_entry"
           /\ last'.map_name = last.map_name
           /\ last'.key = last.key
           /\ admits(maps[last.map_name].key_type, last.key)
           /\ admits(maps[last.map_name].value_type, last'.value)
           /\ ~admits(maps[last.map_name].value_type, Void))
          => ((last'.ret = Ok(Bool(TRUE))) <=> (last.ret = Ok(Void)))
      ]_vars

\* An insert_entry has just returned true on a map whose value schema does not
\* admit void, and fetch_entry of the key no longer returns void.
C18_Witness ==
    /\ last.op = "insert_entry"
    /\ last.ret = Ok(Bool(TRUE))
    /\ ~admits(maps[last.map_name].value_type, Void)
    /\ fetch_entry(maps[last.map_name], last.key).ret = Ok(last.value)
    /\ last.value # Void
====
